---- MODULE Spec2Model ----
(***************************************************************************)
(* Model of the two event-triggered functions of medlaunch-data-engineer:  *)
(*   src/main.py      the Filter unit (format detection, expiry filter,    *)
(*                    per-object processing, batch driver)                 *)
(*   src/lambdas3.py  the Query-Trigger unit (submit, poll, marker)        *)
(*                                                                         *)
(* Texts, keys and date strings are sequences of one-character strings.    *)
(* JSON values are records [t, n, s, c] of one shape, so that any two can   *)
(* be compared: t is the kind ("null", "num", "str", "list", "obj"), n the  *)
(* integer of a number, s the characters of a string, c the elements of a   *)
(* list or the pairs of an object in order; a pair has kind "pair", its key *)
(* in s and its value as the one element of c.                              *)
(***************************************************************************)
EXTENDS Integers, Sequences, FiniteSets, TLC

VARIABLES
    d_text,     \* detect_and_extract_records: its argument
    d_out,      \* detect_and_extract_records: not called / returned / raised
    e_rec,      \* accreditation_expires_within: record
    e_window,   \* accreditation_expires_within: <<today, threshold>>
    e_out,      \* accreditation_expires_within: not called / returned / raised
    f_store,    \* Filter unit: the object store, <<bucket, key>> -> body
    f_event,    \* lambda_handler (main.py): the Records of its event
    f_i,        \* lambda_handler (main.py): index of the record of its loop
    f_job,      \* the environment's settings and today; in run_job, its arguments
    f_pc,       \* "entry", run_job: "start", "bulk", "done"; "returned", "raised"
    f_listed,   \* run_job: the keys list_keys yields in this run
    f_todo,     \* run_job: keys list_keys has yet to yield
    f_files,    \* run_job: total_files
    f_written,  \* run_job: total_written
    f_last,     \* the last process_object call: its key and outcome
    f_puts,     \* every put_object that succeeded, in order
    q_day,      \* Query-Trigger unit: the date date.today() returns
    q_execs,    \* the query engine's executions, in order of creation
    q_markers,  \* the marker objects written, <<bucket, key>> -> body
    q_inv,      \* invocations of lambda_handler so far
    q_event,    \* lambda_handler: the records of its event
    q_ctx,      \* lambda_handler: its context, [clock, remaining]
    q_pc,       \* lambda_handler: where it stands
    q_i,        \* lambda_handler: index of the record of the for loop
    q_src,      \* <<src_bucket, src_key>>
    q_today,    \* today_str
    q_prefix,   \* output_prefix
    q_qid,      \* qid, the index of the execution
    q_delay,    \* wait_for_query: delay
    q_state,    \* wait_for_query: state
    q_exc,      \* the exception lambda_handler raised
    q_timedout  \* the objects an invocation for which ended in TimeoutError

dvars == <<d_text, d_out>>
evars == <<e_rec, e_window, e_out>>
fvars == <<f_store, f_event, f_i, f_job, f_pc, f_listed, f_todo, f_files, f_written, f_last, f_puts>>
qvars == <<q_day, q_execs, q_markers, q_inv, q_event, q_ctx, q_pc, q_i, q_src,
           q_today, q_prefix, q_qid, q_delay, q_state, q_exc, q_timedout>>
vars == <<d_text, d_out, e_rec, e_window, e_out,
          f_store, f_event, f_i, f_job, f_pc, f_listed, f_todo, f_files, f_written, f_last, f_puts,
          q_day, q_execs, q_markers, q_inv, q_event, q_ctx, q_pc, q_i, q_src,
          q_today, q_prefix, q_qid, q_delay, q_state, q_exc, q_timedout>>

-----------------------------------------------------------------------------
(* Characters *)

NL == "\n"
QUOTE == "\""
Whitespace == {" ", NL}
Digits == {"0", "1", "2", "3", "4", "5", "6", "7", "8", "9"}

DigitVal(c) ==
    CASE c = "0" -> 0 [] c = "1" -> 1 [] c = "2" -> 2 [] c = "3" -> 3
      [] c = "4" -> 4 [] c = "5" -> 5 [] c = "6" -> 6 [] c = "7" -> 7
      [] c = "8" -> 8 [] c = "9" -> 9

DigitChar(n) ==
    CASE n = 0 -> "0" [] n = 1 -> "1" [] n = 2 -> "2" [] n = 3 -> "3"
      [] n = 4 -> "4" [] n = 5 -> "5" [] n = 6 -> "6" [] n = 7 -> "7"
      [] n = 8 -> "8" [] n = 9 -> "9"

RECURSIVE Flatten(_)
Flatten(ss) == IF ss = <<>> THEN <<>> ELSE Head(ss) \o Flatten(Tail(ss))

\* str.join: the parts with sep between them
RECURSIVE Join(_, _)
Join(sep, ss) ==
    IF ss = <<>> THEN <<>>
    ELSE IF Len(ss) = 1 THEN ss[1]
    ELSE ss[1] \o sep \o Join(sep, Tail(ss))

SetMin(S) == CHOOSE x \in S : \A y \in S : x <= y
SetMax(S) == CHOOSE x \in S : \A y \in S : y <= x

\* the elements of a finite set of integers in increasing order
SortedSeq(S) ==
    [k \in 1..Cardinality(S) |-> CHOOSE x \in S : Cardinality({y \in S : y < x}) = k - 1]

\* first index >= i of s whose character is not in cs (Len(s) + 1 when none)
SkipChars(s, i, cs) ==
    CHOOSE j \in i..(Len(s) + 1) :
        /\ j = Len(s) + 1 \/ s[j] \notin cs
        /\ \A k \in i..(j - 1) : s[k] \in cs

\* first index >= i of s whose character is in cs (Len(s) + 1 when none)
FindChars(s, i, cs) ==
    CHOOSE j \in i..(Len(s) + 1) :
        /\ j = Len(s) + 1 \/ s[j] \in cs
        /\ \A k \in i..(j - 1) : s[k] \notin cs

\* last index of s whose character is not in cs (0 when none)
LastNotIn(s, cs) == SetMax({j \in 1..Len(s) : s[j] \notin cs} \cup {0})

\* first index >= i of s that holds no whitespace (Len(s) + 1 when none)
SkipWs(s, i) == SkipChars(s, i, Whitespace)

\* str.strip()
Strip(s) == SubSeq(s, SkipWs(s, 1), LastNotIn(s, Whitespace))

\* str.splitlines(): the lines between line breaks, no empty last line
SplitLines(s) ==
    LET starts == SortedSeq({1} \cup {i + 1 : i \in {j \in 1..Len(s) : s[j] = NL}})
        kept == SelectSeq(starts, LAMBDA b : b <= Len(s))
    IN [k \in 1..Len(kept) |-> SubSeq(s, kept[k], FindChars(s, kept[k], {NL}) - 1)]

-----------------------------------------------------------------------------
(* JSON values *)

Null == [t |-> "null", n |-> 0, s |-> <<>>, c |-> <<>>]
Num(k) == [t |-> "num", n |-> k, s |-> <<>>, c |-> <<>>]
Str(cs) == [t |-> "str", n |-> 0, s |-> cs, c |-> <<>>]
List(xs) == [t |-> "list", n |-> 0, s |-> <<>>, c |-> xs]
Obj(kvs) == [t |-> "obj", n |-> 0, s |-> <<>>, c |-> kvs]
Pair(key, x) == [t |-> "pair", n |-> 0, s |-> key, c |-> <<x>>]

\* Python truthiness of a parsed JSON value
Truthy(x) ==
    CASE x.t = "null" -> FALSE
      [] x.t = "num" -> x.n # 0
      [] x.t = "str" -> x.s # <<>>
      [] OTHER -> x.c # <<>>

\* dict.get(key): the value stored under key, None (null) when absent
RECURSIVE PairsGet(_, _)
PairsGet(kvs, key) ==
    IF kvs = <<>> THEN Null
    ELSE IF kvs[1].s = key THEN kvs[1].c[1]
    ELSE PairsGet(Tail(kvs), key)

\* d[key] = val: a repeated key keeps its first position and takes the last value
RECURSIVE PairsSet(_, _, _)
PairsSet(kvs, key, val) ==
    IF kvs = <<>> THEN <<Pair(key, val)>>
    ELSE IF kvs[1].s = key THEN <<Pair(key, val)>> \o Tail(kvs)
    ELSE <<kvs[1]>> \o PairsSet(Tail(kvs), key, val)

-----------------------------------------------------------------------------
(* The json library's decoder, as far as the repository uses it.  Fractions,  *)
(* exponents, string escapes and the literals true, false, NaN, Infinity are  *)
(* not modelled; the inputs drawn below hold none of them.                    *)

NoParse == [ok |-> FALSE, val |-> Null, end |-> 0]
Parsed(x, e) == [ok |-> TRUE, val |-> x, end |-> e]

\* int() of a run of digits
RECURSIVE DigitsVal(_)
DigitsVal(ds) ==
    IF ds = <<>> THEN 0
    ELSE DigitsVal(SubSeq(ds, 1, Len(ds) - 1)) * 10 + DigitVal(ds[Len(ds)])

\* the run of digits starting at i: <<value, index after it>>
ScanDigits(s, i) ==
    LET e == SkipChars(s, i, Digits) IN <<DigitsVal(SubSeq(s, i, e - 1)), e>>

\* NUMBER_RE, integer part: -?(0|[1-9][0-9]*)
ScanNumber(s, i) ==
    LET neg == s[i] = "-"
        j == IF neg THEN i + 1 ELSE i
    IN IF j > Len(s) \/ s[j] \notin Digits THEN NoParse
       ELSE IF s[j] = "0" THEN Parsed(Num(0), j + 1)
       ELSE LET r == ScanDigits(s, j)
            IN Parsed(Num(IF neg THEN 0 - r[1] ELSE r[1]), r[2])

\* py_scanstring from the character after the opening quote: the characters
\* up to the closing quote; a line break inside a string is an error
ScanString(s, i) ==
    LET e == FindChars(s, i, {QUOTE, NL}) IN
    IF e > Len(s) \/ s[e] = NL THEN NoParse
    ELSE Parsed(Str(SubSeq(s, i, e - 1)), e + 1)

ScanNull(s, i) ==
    IF i + 3 <= Len(s) /\ SubSeq(s, i, i + 3) = <<"n", "u", "l", "l">>
    THEN Parsed(Null, i + 4) ELSE NoParse

RECURSIVE ScanOnce(_, _)
RECURSIVE ScanArrayItems(_, _, _)
RECURSIVE ScanObjectItems(_, _, _)

\* JSONArray after "[" and whitespace, at the start of a value
ScanArrayItems(s, i, acc) ==
    LET r == ScanOnce(s, i) IN
    IF ~r.ok THEN NoParse
    ELSE LET j == SkipWs(s, r.end)
             xs == Append(acc, r.val)
         IN IF j > Len(s) THEN NoParse
            ELSE IF s[j] = "]" THEN Parsed(List(xs), j + 1)
            ELSE IF s[j] = "," THEN ScanArrayItems(s, SkipWs(s, j + 1), xs)
            ELSE NoParse

\* JSONObject at the opening quote of a key
ScanObjectItems(s, i, acc) ==
    IF i > Len(s) \/ s[i] # QUOTE THEN NoParse
    ELSE LET k == ScanString(s, i + 1) IN
         IF ~k.ok THEN NoParse
         ELSE LET c == SkipWs(s, k.end) IN
              IF c > Len(s) \/ s[c] # ":" THEN NoParse
              ELSE LET r == ScanOnce(s, SkipWs(s, c + 1)) IN
                   IF ~r.ok THEN NoParse
                   ELSE LET j == SkipWs(s, r.end)
                            kvs == PairsSet(acc, k.val.s, r.val)
                        IN IF j > Len(s) THEN NoParse
                           ELSE IF s[j] = "}" THEN Parsed(Obj(kvs), j + 1)
                           ELSE IF s[j] = ","
                                THEN ScanObjectItems(s, SkipWs(s, j + 1), kvs)
                           ELSE NoParse

\* scan_once: one value starting exactly at i
ScanOnce(s, i) ==
    IF i > Len(s) THEN NoParse
    ELSE CASE s[i] = QUOTE -> ScanString(s, i + 1)
           [] s[i] = "[" ->
                LET j == SkipWs(s, i + 1) IN
                IF j <= Len(s) /\ s[j] = "]" THEN Parsed(List(<<>>), j + 1)
                ELSE ScanArrayItems(s, j, <<>>)
           [] s[i] = "{" ->
                LET j == SkipWs(s, i + 1) IN
                IF j <= Len(s) /\ s[j] = "}" THEN Parsed(Obj(<<>>), j + 1)
                ELSE ScanObjectItems(s, j, <<>>)
           [] s[i] = "n" -> ScanNull(s, i)
           [] s[i] \in Digits \cup {"-"} -> ScanNumber(s, i)
           [] OTHER -> NoParse

\* JSONDecoder.raw_decode(s, idx): no whitespace is skipped before the value
RawDecode(s, i) == ScanOnce(s, i)

\* json.loads(s): one value with whitespace around it and nothing else
Loads(s) ==
    LET r == RawDecode(s, SkipWs(s, 1)) IN
    IF r.ok /\ SkipWs(s, r.end) = Len(s) + 1 THEN r ELSE NoParse

\* json.dumps(x, separators=(",", ":"))
RECURSIVE DumpsNat(_)
DumpsNat(n) == IF n < 10 THEN <<DigitChar(n)>> ELSE DumpsNat(n \div 10) \o <<DigitChar(n % 10)>>

RECURSIVE Dumps(_)
RECURSIVE DumpsItems(_)
RECURSIVE DumpsPairs(_)
DumpsItems(xs) ==
    IF xs = <<>> THEN <<>>
    ELSE Dumps(xs[1]) \o (IF Len(xs) = 1 THEN <<>> ELSE <<",">> \o DumpsItems(Tail(xs)))
DumpsPairs(kvs) ==
    IF kvs = <<>> THEN <<>>
    ELSE <<QUOTE>> \o kvs[1].s \o <<QUOTE, ":">> \o Dumps(kvs[1].c[1])
         \o (IF Len(kvs) = 1 THEN <<>> ELSE <<",">> \o DumpsPairs(Tail(kvs)))
Dumps(x) ==
    CASE x.t = "null" -> <<"n", "u", "l", "l">>
      [] x.t = "num" -> IF x.n < 0 THEN <<"-">> \o DumpsNat(0 - x.n) ELSE DumpsNat(x.n)
      [] x.t = "str" -> <<QUOTE>> \o x.s \o <<QUOTE>>
      [] x.t = "list" -> <<"[">> \o DumpsItems(x.c) \o <<"]">>
      [] x.t = "obj" -> <<"{">> \o DumpsPairs(x.c) \o <<"}">>

-----------------------------------------------------------------------------
(* src/main.py: parsing helpers.  A parser's result is [ok, recs]; ok = FALSE *)
(* is the None it returns when its framing rejects the text.                  *)

Rejected == [ok |-> FALSE, recs |-> <<>>]
Accepted(recs) == [ok |-> TRUE, recs |-> recs]

NonBlankLines(text) == SelectSeq(SplitLines(text), LAMBDA ln : Strip(ln) # <<>>)

\* the for loop of _iter_ndjson: stops at the first line that does not parse
RECURSIVE NdjsonLoop(_, _)
NdjsonLoop(lines, recs) ==
    IF lines = <<>> THEN Accepted(recs)
    ELSE LET r == Loads(lines[1]) IN
         IF r.ok THEN NdjsonLoop(Tail(lines), Append(recs, r.val)) ELSE Rejected

IterNdjson(text) ==
    LET lines == NonBlankLines(text) IN
    IF lines = <<>> THEN Accepted(<<>>) ELSE NdjsonLoop(lines, <<>>)

ParseJsonArray(text) ==
    LET r == Loads(text) IN
    IF r.ok /\ r.val.t = "list" THEN Accepted(r.val.c) ELSE Rejected

\* the while loop of _iter_concatenated
RECURSIVE ConcatLoop(_, _, _)
ConcatLoop(text, idx, recs) ==
    LET i == SkipWs(text, idx) IN
    IF i > Len(text) THEN Accepted(recs)
    ELSE LET r == RawDecode(text, i) IN
         IF r.ok THEN ConcatLoop(text, r.end, Append(recs, r.val)) ELSE Rejected

IterConcatenated(text) == ConcatLoop(text, 1, <<>>)

\* the tuple of parsers detect_and_extract_records walks, in its order
\* a variant that tries the array framing first (C5 must tell it apart)
ParserOrderMutant == <<"array", "ndjson", "concatenated">>

\* line 53: the parsers in the order they are tried
ParserOrder == <<"ndjson", "array", "concatenated">>

RunParser(name, text) ==
    CASE name = "ndjson" -> IterNdjson(text)
      [] name = "array" -> ParseJsonArray(text)
      [] name = "concatenated" -> IterConcatenated(text)

RECURSIVE DetectLoop(_, _)
DetectLoop(parsers, text) ==
    IF parsers = <<>> THEN [st |-> "raised", exc |-> "ValueError", recs |-> <<>>]
    ELSE LET res == RunParser(parsers[1], text) IN
         IF res.ok THEN [st |-> "returned", exc |-> "", recs |-> res.recs]
         ELSE DetectLoop(Tail(parsers), text)

DetectAndExtractRecords(text) == DetectLoop(ParserOrder, text)

-----------------------------------------------------------------------------
(* src/main.py: date / filter.  A date is <<year, month, day>>.              *)

KeyAccreditations == <<"a", "c", "c", "r", "e", "d", "i", "t", "a", "t", "i", "o", "n", "s">>
KeyValidUntil == <<"v", "a", "l", "i", "d", "_", "u", "n", "t", "i", "l">>

DateLE(a, b) ==
    \/ a[1] < b[1]
    \/ a[1] = b[1] /\ a[2] < b[2]
    \/ a[1] = b[1] /\ a[2] = b[2] /\ a[3] <= b[3]

IsLeap(y) == (y % 4 = 0 /\ y % 100 # 0) \/ y % 400 = 0

DaysInMonth(y, m) ==
    IF m = 2 THEN (IF IsLeap(y) THEN 29 ELSE 28)
    ELSE IF m \in {4, 6, 9, 11} THEN 30 ELSE 31

NoDate == [ok |-> FALSE, d |-> <<0, 0, 0>>]

\* date.fromisoformat(s) in the form YYYY-MM-DD; any other text raises (the
\* week and basic forms newer interpreters also read are not in the inputs)
FromIsoFormat(s) ==
    IF /\ Len(s) = 10
       /\ s[5] = "-" /\ s[8] = "-"
       /\ \A i \in {1, 2, 3, 4, 6, 7, 9, 10} : s[i] \in Digits
    THEN LET y == DigitsVal(SubSeq(s, 1, 4))
             m == DigitsVal(SubSeq(s, 6, 7))
             d == DigitsVal(SubSeq(s, 9, 10))
         IN IF y >= 1 /\ m \in 1..12 /\ d >= 1 /\ d <= DaysInMonth(y, m)
            THEN [ok |-> TRUE, d |-> <<y, m, d>>] ELSE NoDate
    ELSE NoDate

\* s[:10]
FirstTen(s) == SubSeq(s, 1, IF Len(s) < 10 THEN Len(s) ELSE 10)

\* _parse_iso_date(s) for s a JSON value: [st, ok, d]; st = "raised" when
\* s.strip() does not exist (s is truthy and no string)
ParseIsoDate(x) ==
    IF ~Truthy(x) THEN [st |-> "returned", ok |-> FALSE, d |-> NoDate.d]
    ELSE IF x.t # "str" THEN [st |-> "raised", ok |-> FALSE, d |-> NoDate.d]
    ELSE LET r == FromIsoFormat(FirstTen(Strip(x.s)))
         IN [st |-> "returned", ok |-> r.ok, d |-> r.d]

ExpReturned(b) == [st |-> "returned", exc |-> "", val |-> b]
ExpRaised(e) == [st |-> "raised", exc |-> e, val |-> FALSE]

InWindow(d, threshold, today) == DateLE(today, d) /\ DateLE(d, threshold)

\* the for loop of accreditation_expires_within over a list
RECURSIVE ExpiresLoop(_, _, _)
ExpiresLoop(accs, threshold, today) ==
    IF accs = <<>> THEN ExpReturned(FALSE)
    ELSE IF accs[1].t # "obj" THEN ExpRaised("AttributeError")
    ELSE LET d == ParseIsoDate(PairsGet(accs[1].c, KeyValidUntil)) IN
         IF d.st = "raised" THEN ExpRaised("AttributeError")
         ELSE IF d.ok /\ InWindow(d.d, threshold, today) THEN ExpReturned(TRUE)
         ELSE ExpiresLoop(Tail(accs), threshold, today)

\* accreditation_expires_within(record, threshold, today) for record any JSON
\* value: record.get needs a dict; a truthy accreditations is iterated, which
\* fails for a number and yields strings (no .get) for a string or a dict
AccreditationExpiresWithin(record, threshold, today) ==
    IF record.t # "obj" THEN ExpRaised("AttributeError")
    ELSE LET accs == PairsGet(record.c, KeyAccreditations) IN
         IF ~Truthy(accs) THEN ExpReturned(FALSE)
         ELSE IF accs.t = "list" THEN ExpiresLoop(accs.c, threshold, today)
         ELSE IF accs.t = "num" THEN ExpRaised("TypeError")
         ELSE ExpRaised("AttributeError")

-----------------------------------------------------------------------------
(* src/main.py: IO.  A body is [utf8, text]: utf8 = FALSE are bytes that do  *)
(* not decode.  The store is a function from <<bucket, key>> to bodies.      *)

FilteredSuffix == <<"_", "f", "i", "l", "t", "e", "r", "e", "d", ".", "n", "d", "j", "s", "o", "n">>

\* s.endswith(c) for one character
EndsWith(s, c) == s # <<>> /\ s[Len(s)] = c

\* s.startswith(p)
StartsWith(s, p) == Len(p) <= Len(s) /\ SubSeq(s, 1, Len(p)) = p

\* s.rstrip(c) for one character
RStripChar(s, c) == SubSeq(s, 1, LastNotIn(s, {c}))

\* index of the last c in s, 0 when there is none
LastIndexOf(s, c) == SetMax({j \in 1..Len(s) : s[j] = c} \cup {0})

\* s.rsplit(c, 1)[-1]
AfterLast(s, c) == SubSeq(s, LastIndexOf(s, c) + 1, Len(s))

\* s.rsplit(c, 1)[0]
BeforeLast(s, c) ==
    LET i == LastIndexOf(s, c) IN IF i = 0 THEN s ELSE SubSeq(s, 1, i - 1)

\* base and out_key of process_object
BaseName(key) == BeforeLast(AfterLast(key, "/"), ".")
OutKey(key, out_prefix) ==
    RStripChar(out_prefix, "/") \o <<"/">> \o BaseName(key) \o FilteredSuffix

\* list_keys(bucket, prefix): the keys under the prefix that are no directory
\* markers; nothing when the listing fails (the error is logged).  A page
\* holds 1000 keys, so a store of the model's size is listed in one page.
ListKeys(store, bucket, prefix, listOk) ==
    IF ~listOk THEN {}
    ELSE {a[2] : a \in {b \in DOMAIN store :
                          b[1] = bucket /\ StartsWith(b[2], prefix) /\ ~EndsWith(b[2], "/")}}

\* the list comprehension of process_object: [ok, recs]; ok = FALSE when
\* accreditation_expires_within raised on some record
RECURSIVE FilterRecords(_, _, _, _)
FilterRecords(records, threshold, today, acc) ==
    IF records = <<>> THEN [ok |-> TRUE, recs |-> acc]
    ELSE LET r == AccreditationExpiresWithin(records[1], threshold, today) IN
         IF r.st = "raised" THEN [ok |-> FALSE, recs |-> <<>>]
         ELSE FilterRecords(Tail(records), threshold, today,
                            IF r.val THEN Append(acc, records[1]) ELSE acc)

NdjsonPayload(recs) == Join(<<NL>>, [i \in 1..Len(recs) |-> Dumps(recs[i])])

PoReturned(n, tried, puts) == [st |-> "returned", ret |-> n, tried |-> tried, puts |-> puts]
PoRaised == [st |-> "raised", ret |-> 0, tried |-> 0, puts |-> <<>>]

\* process_object(bucket, key, out_prefix, threshold, today) on a store;
\* readOk and writeOk say whether get_object and put_object succeed.
\* tried counts the put_object calls, puts holds the one that succeeded.
\* lines 101-117: nothing to write, or one put_object whose failure is caught
PoWrite(filtered, bucket, key, out_prefix, writeOk) ==
    IF filtered = <<>> THEN PoReturned(0, 0, <<>>)
    ELSE IF writeOk
         THEN PoReturned(Len(filtered), 1,
                         <<[src |-> key, bucket |-> bucket,
                            key |-> OutKey(key, out_prefix),
                            text |-> NdjsonPayload(filtered)]>>)
         ELSE PoReturned(0, 1, <<>>)

\* line 99 onward: the filter runs outside the try, its exception propagates
PoFilter(filtered, bucket, key, out_prefix, writeOk) ==
    IF ~filtered.ok THEN PoRaised
    ELSE PoWrite(filtered.recs, bucket, key, out_prefix, writeOk)

\* lines 94-98: a failure of the detection is caught and 0 returned
PoDetected(det, bucket, key, out_prefix, threshold, today, writeOk) ==
    IF det.st = "raised" THEN PoReturned(0, 0, <<>>)
    ELSE PoFilter(FilterRecords(det.recs, threshold, today, <<>>),
                  bucket, key, out_prefix, writeOk)

ProcessObject(store, bucket, key, out_prefix, threshold, today, readOk, writeOk) ==
    IF ~readOk \/ <<bucket, key>> \notin DOMAIN store THEN PoReturned(0, 0, <<>>)
    ELSE IF ~store[<<bucket, key>>].utf8 THEN PoReturned(0, 0, <<>>)
    ELSE PoDetected(DetectAndExtractRecords(store[<<bucket, key>>].text),
                    bucket, key, out_prefix, threshold, today, writeOk)

\* the store after the puts of a call
RECURSIVE ApplyPuts(_, _)
ApplyPuts(store, puts) ==
    IF puts = <<>> THEN store
    ELSE LET a == <<puts[1].bucket, puts[1].key>>
             body == [utf8 |-> TRUE, text |-> puts[1].text]
         IN ApplyPuts([b \in DOMAIN store \cup {a} |-> IF b = a THEN body ELSE store[b]],
                      Tail(puts))

\* date + timedelta(days=n) for n >= 0, a month at a time
RECURSIVE AddDays(_, _)
AddDays(d, n) ==
    LET left == DaysInMonth(d[1], d[2]) - d[3] IN
    IF n <= left THEN <<d[1], d[2], d[3] + n>>
    ELSE AddDays(IF d[2] < 12 THEN <<d[1], d[2] + 1, 1>> ELSE <<d[1] + 1, 1, 1>>,
                 n - left - 1)

\* int(round(months * 30.5)) for months >= 0: round() takes a half to the
\* even neighbour
WindowDays(months) ==
    IF (months * 61) % 2 = 0 THEN (months * 61) \div 2
    ELSE LET lo == (months * 61 - 1) \div 2 IN IF lo % 2 = 0 THEN lo ELSE lo + 1

Threshold(today, months) == AddDays(today, WindowDays(months))

-----------------------------------------------------------------------------
(* Specification of detect_and_extract_records alone: every text of at most  *)
(* MaxPieces pieces, then one call.                                          *)

MaxPieces == 5

Pieces == {<<"[">>, <<"]">>, <<"{", "}">>, <<",">>, <<NL>>, <<" ">>, <<"1">>}

NotCalled == [st |-> "idle", exc |-> "", recs |-> <<>>]

DetectInit ==
    /\ \E n \in 0..MaxPieces : \E f \in [1..n -> Pieces] : d_text = Flatten(f)
    /\ d_out = NotCalled

DetectCall ==
    /\ d_out.st = "idle"
    /\ d_out' = DetectAndExtractRecords(d_text)
    /\ UNCHANGED d_text

DetectNext == DetectCall /\ UNCHANGED <<evars, fvars, qvars>>

-----------------------------------------------------------------------------
(* Claims about detect_and_extract_records (checked under SpecDetect)        *)

\* what each framing accepts, stated on the text and not by the code's loops
NdjsonAccepts(text) ==
    \A i \in 1..Len(NonBlankLines(text)) : Loads(NonBlankLines(text)[i]).ok

NdjsonRecords(text) ==
    [i \in 1..Len(NonBlankLines(text)) |-> Loads(NonBlankLines(text)[i]).val]

ArrayAccepts(text) == Loads(text).ok /\ Loads(text).val.t = "list"

\* the text from i on splits into chunks, each one JSON value with optional
\* whitespace around it, or is whitespace only
RECURSIVE ConsumableFrom(_, _)
ConsumableFrom(text, i) ==
    \/ SkipWs(text, i) > Len(text)
    \/ \E j \in i..Len(text) :
          /\ Loads(SubSeq(text, i, j)).ok
          /\ ConsumableFrom(text, j + 1)

ConcatAccepts(text) == ConsumableFrom(text, 1)

NoWhitespace(text) == SelectSeq(text, LAMBDA c : c \notin Whitespace)

DumpsAll(recs) == Flatten([i \in 1..Len(recs) |-> Dumps(recs[i])])

\* C5: the three framings are tried in the order NDJSON, JSON array,
\* concatenated values, and the first that accepts the text gives the result:
\* NDJSON accepts iff every non-blank line parses as one value (one record per
\* non-blank line, in order; no record for a blank text), JSON array accepts
\* iff the whole text parses to a list (its elements are the records),
\* concatenated accepts iff values can be consumed to the end of the text
\* (the records are those values: written compactly one after the other they
\* are the text without its whitespace); when none accepts, the call fails
\* with the format error (ValueError).
C5_FirstAcceptingFraming ==
    d_out.st # "idle" =>
        IF NdjsonAccepts(d_text)
        THEN d_out.st = "returned" /\ d_out.recs = NdjsonRecords(d_text)
        ELSE IF ArrayAccepts(d_text)
        THEN d_out.st = "returned" /\ d_out.recs = Loads(d_text).val.c
        ELSE IF ConcatAccepts(d_text)
        THEN /\ d_out.st = "returned"
             /\ d_out.recs # <<>>
             /\ DumpsAll(d_out.recs) = NoWhitespace(d_text)
        ELSE d_out.st = "raised" /\ d_out.exc = "ValueError"

\* the third framing decided a call, with several records
C5_Witness ==
    /\ d_out.st = "returned"
    /\ ~NdjsonAccepts(d_text)
    /\ ~ArrayAccepts(d_text)
    /\ ConcatAccepts(d_text)
    /\ Len(d_out.recs) >= 2
    /\ \E i \in 1..Len(d_text) : d_text[i] = NL

IsArrayOfObjects(text) ==
    /\ Loads(text).ok
    /\ Loads(text).val.t = "list"
    /\ Loads(text).val.c # <<>>
    /\ \A i \in 1..Len(Loads(text).val.c) : Loads(text).val.c[i].t = "obj"

\* C6: for a text that is one valid JSON array of objects, on one line or on
\* several, the call returns exactly the array's elements, in order.
C6_ArrayYieldsElements ==
    (d_out.st # "idle" /\ IsArrayOfObjects(d_text)) =>
        (d_out.st = "returned" /\ d_out.recs = Loads(d_text).val.c)

-----------------------------------------------------------------------------
(* Specification of accreditation_expires_within alone: a record, a window,  *)
(* then one call.                                                            *)

MaxAccs == 2

\* valid_until texts: inside the window of 2024-01-01 .. 2024-07-02, far
\* outside, on either bound, a day outside either bound, with a space before,
\* with a time after, no calendar date, no date at all, empty
ValidUntilTexts ==
    { <<"2", "0", "2", "4", "-", "0", "3", "-", "0", "1">>,
      <<"2", "0", "9", "9", "-", "0", "1", "-", "0", "1">>,
      <<"2", "0", "2", "4", "-", "0", "1", "-", "0", "1">>,
      <<"2", "0", "2", "4", "-", "0", "7", "-", "0", "2">>,
      <<"2", "0", "2", "3", "-", "1", "2", "-", "3", "1">>,
      <<"2", "0", "2", "4", "-", "0", "7", "-", "0", "3">>,
      <<" ", "2", "0", "2", "4", "-", "0", "3", "-", "0", "1">>,
      <<"2", "0", "2", "4", "-", "0", "3", "-", "0", "1", "T", "0", "0", ":", "0", "0", ":", "0", "0", "Z">>,
      <<"2", "0", "2", "4", "-", "0", "2", "-", "3", "0">>,
      <<"s", "o", "o", "n">>,
      <<>> }

ValidUntilValues == {Null, Num(20240301)} \cup {Str(t) : t \in ValidUntilTexts}

AccreditationEntries ==
    {Obj(<<>>), Num(5)} \cup {Obj(<<Pair(KeyValidUntil, x)>>) : x \in ValidUntilValues}

AccreditationLists ==
    UNION {[1..n -> AccreditationEntries] : n \in 0..MaxAccs}

ExpiryRecords ==
    {Obj(<<>>), Num(1), List(<<>>)}
    \cup {Obj(<<Pair(KeyAccreditations, x)>>) : x \in {Null, Num(5), Str(<<"a", "b">>)}}
    \cup {Obj(<<Pair(KeyAccreditations, List(xs))>>) : xs \in AccreditationLists}

\* <<today, threshold>>
ExpiryWindows ==
    { << <<2024, 1, 1>>, <<2024, 7, 2>> >>,
      << <<2024, 3, 1>>, <<2024, 3, 1>> >>,
      << <<2024, 7, 3>>, <<2100, 1, 1>> >> }

ExpNotCalled == [st |-> "idle", exc |-> "", val |-> FALSE]

ExpiryInit ==
    /\ e_rec \in ExpiryRecords
    /\ e_window \in ExpiryWindows
    /\ e_out = ExpNotCalled

ExpiryCall ==
    /\ e_out.st = "idle"
    /\ e_out' = AccreditationExpiresWithin(e_rec, e_window[2], e_window[1])
    /\ UNCHANGED <<e_rec, e_window>>

ExpiryNext == ExpiryCall /\ UNCHANGED <<dvars, fvars, qvars>>

-----------------------------------------------------------------------------
(* Claims about accreditation_expires_within (checked under SpecExpiry)      *)

\* a record as the filter's contract takes it: a mapping whose accreditations
\* is missing, null or a list of mappings
WellShapedRecord(record) ==
    /\ record.t = "obj"
    /\ LET accs == PairsGet(record.c, KeyAccreditations) IN
       \/ accs.t = "null"
       \/ accs.t = "list" /\ \A i \in 1..Len(accs.c) : accs.c[i].t = "obj"

\* the entry carries a valid_until text whose first 10 characters (blanks
\* around the text aside) are a calendar date inside [today, threshold]
EntryInWindow(acc, threshold, today) ==
    LET x == PairsGet(acc.c, KeyValidUntil) IN
    /\ x.t = "str"
    /\ FromIsoFormat(FirstTen(Strip(x.s))).ok
    /\ InWindow(FromIsoFormat(FirstTen(Strip(x.s))).d, threshold, today)

SomeEntryInWindow(record, threshold, today) ==
    LET accs == PairsGet(record.c, KeyAccreditations) IN
    /\ accs.t = "list"
    /\ \E i \in 1..Len(accs.c) : EntryInWindow(accs.c[i], threshold, today)

\* C7: the call is true iff at least one entry of the record's accreditations
\* has a valid_until whose first 10 characters parse as a date d with
\* today <= d <= threshold; an entry whose valid_until is missing or does not
\* parse is skipped without error; missing or empty accreditations give false.
C7_TrueIffSomeEntryInWindow ==
    (e_out.st # "idle" /\ WellShapedRecord(e_rec)) =>
        /\ e_out.st = "returned"
        /\ e_out.val = SomeEntryInWindow(e_rec, e_window[2], e_window[1])

\* the characters urllib.parse.quote leaves as they are (of those modelled)
Unreserved == {"a", "b", "k", ".", "-", "_", "~"} \cup Digits

\* the other characters of the modelled alphabet and their two hex digits
Escaped ==
    (<<"2", "0">> :> " ") @@ (<<"2", "B">> :> "+") @@ (<<"2", "F">> :> "/")
    @@ (<<"7", "C">> :> "|") @@ (<<"2", "5">> :> "%")

HexOf(c) == CHOOSE h \in DOMAIN Escaped : Escaped[h] = c

\* unquote reads the hex digits in either case
Unescaped ==
    Escaped @@ (<<"2", "b">> :> "+") @@ (<<"2", "f">> :> "/") @@ (<<"7", "c">> :> "|")

\* urllib.parse.quote(s, safe="")
Quote(s) == Flatten([i \in 1..Len(s) |-> IF s[i] \in Unreserved THEN <<s[i]>> ELSE <<"%">> \o HexOf(s[i])])

\* urllib.parse.unquote from index i: a % with the two hex digits of a
\* modelled character is decoded, any other character is kept
RECURSIVE Unquote(_, _)
Unquote(s, i) ==
    IF i > Len(s) THEN <<>>
    ELSE IF s[i] = "%" /\ i + 2 <= Len(s) /\ <<s[i + 1], s[i + 2]>> \in DOMAIN Unescaped
         THEN <<Unescaped[<<s[i + 1], s[i + 2]>>]>> \o Unquote(s, i + 3)
         ELSE <<s[i]>> \o Unquote(s, i + 1)

\* urllib.parse.unquote_plus
UnquotePlus(s) == Unquote([i \in 1..Len(s) |-> IF s[i] = "+" THEN " " ELSE s[i]], 1)

-----------------------------------------------------------------------------
(* Specification of the Filter unit: a store and one invocation of           *)
(* lambda_handler, which calls run_job once for the whole prefix or once per *)
(* S3 record of its event; one loop iteration per step.                      *)

DefaultBucket == "B"
EventBucket == "E"
InputPrefix == <<"i", "/">>

KeyA == <<"i", "/", "a", ".", "j">>
KeyDirA == <<"i", "/", "d", "/", "a", ".", "n">>
KeyB == <<"i", "/", "b", ".", "j">>
KeyDirMarker == <<"i", "/", "d", "/">>
SourceKeys == {KeyA, KeyDirA, KeyB}

\* records: expiring inside the window, expiring on its last day, expiring
\* long after it (the window of 2024-01-01 and 6 months ends 2024-07-02)
TextExpiring == <<"{", QUOTE, "a", "c", "c", "r", "e", "d", "i", "t", "a", "t", "i", "o", "n", "s", QUOTE, ":", "[", "{", QUOTE, "v", "a", "l", "i", "d", "_", "u", "n", "t", "i", "l", QUOTE, ":", QUOTE, "2", "0", "2", "4", "-", "0", "3", "-", "0", "1", QUOTE, "}", "]", "}">>
TextExpiringLastDay == <<"{", QUOTE, "a", "c", "c", "r", "e", "d", "i", "t", "a", "t", "i", "o", "n", "s", QUOTE, ":", "[", "{", QUOTE, "v", "a", "l", "i", "d", "_", "u", "n", "t", "i", "l", QUOTE, ":", QUOTE, "2", "0", "2", "4", "-", "0", "7", "-", "0", "2", QUOTE, "}", "]", "}">>
TextNotExpiring == <<"{", QUOTE, "a", "c", "c", "r", "e", "d", "i", "t", "a", "t", "i", "o", "n", "s", QUOTE, ":", "[", "{", QUOTE, "v", "a", "l", "i", "d", "_", "u", "n", "t", "i", "l", QUOTE, ":", QUOTE, "2", "0", "9", "9", "-", "0", "1", "-", "0", "1", QUOTE, "}", "]", "}">>

Utf8(text) == [utf8 |-> TRUE, text |-> text]

\* source bodies: two records on two lines; an array of two records on two lines and on one line; one record
\* outside the window; no JSON; bytes that are no UTF-8
BodyNdjson == Utf8(TextExpiring \o <<NL>> \o TextExpiringLastDay \o <<NL>>)
BodyNotUtf8 == [utf8 |-> FALSE, text |-> <<>>]

SourceBodies ==
    { BodyNdjson,
      Utf8(<<"[">> \o TextExpiring \o <<",", NL>> \o TextNotExpiring \o <<"]">>),
      Utf8(<<"[">> \o TextExpiring \o <<",">> \o TextNotExpiring \o <<"]">>),
      Utf8(TextNotExpiring),
      Utf8(<<"{", "n", "o", "t", " ", "j", "s", "o", "n">>),
      BodyNotUtf8 }

\* what the third object holds: records that expire, or bytes that do not decode
OtherBodies == {BodyNdjson, BodyNotUtf8}

\* the stores: each source key absent or holding a body, in the default
\* bucket; the directory comes with its (empty) marker object

StoresOver(ks) ==
    { [a \in {<<DefaultBucket, k>> : k \in ks \cup (IF KeyDirA \in ks THEN {KeyDirMarker} ELSE {})} |->
          IF a[2] = KeyDirMarker THEN Utf8(<<>>) ELSE f[a[2]]] :
        f \in {g \in [ks -> SourceBodies] : KeyB \in ks => g[KeyB] \in OtherBodies} }

Stores == UNION {StoresOver(ks) : ks \in SUBSET SourceKeys}

Job(op, ob, ok) ==
    [default_bucket |-> DefaultBucket, input_prefix |-> InputPrefix,
     output_prefix |-> op, months |-> 6, only_bucket |-> ob, only_key |-> ok,
     today |-> <<2024, 1, 1>>]

\* the settings lambda_handler reads from the environment, for either
\* spelling of the output prefix; only_bucket and only_key as yet None
Jobs == {Job(op, "", <<>>) : op \in {<<"o", "/">>, <<"o">>}}

\* the events: no Records; two S3 records of the default bucket, the second
\* key percent-encoded, around a record of another source; one S3 record of
\* another bucket
FilterEvents ==
    { <<>>,
      << [eventSource |-> "aws:s3", bucket |-> DefaultBucket, key |-> KeyA],
         [eventSource |-> "aws:sns", bucket |-> "", key |-> <<>>],
         [eventSource |-> "aws:s3", bucket |-> DefaultBucket,
          key |-> <<"i", "%", "2", "F", "d", "%", "2", "F", "a", ".", "n">>] >>,
      << [eventSource |-> "aws:s3", bucket |-> EventBucket, key |-> KeyA] >> }

PoNotCalled ==
    [st |-> "idle", ret |-> 0, tried |-> 0, puts |-> <<>>,
     bucket |-> "", key |-> <<>>, readOk |-> FALSE, writeOk |-> FALSE]

\* the record kept of a call: its outcome, its object, what the store did
CallRecord(r, bucket, key, readOk, writeOk) ==
    [st |-> r.st, ret |-> r.ret, tried |-> r.tried, puts |-> r.puts,
     bucket |-> bucket, key |-> key, readOk |-> readOk, writeOk |-> writeOk]

FilterInit ==
    /\ f_store \in Stores
    /\ f_event \in FilterEvents
    /\ f_i = 1
    /\ f_job \in Jobs
    /\ f_pc = "entry"
    /\ f_listed = {}
    /\ f_todo = {}
    /\ f_files = 0
    /\ f_written = 0
    /\ f_last = PoNotCalled
    /\ f_puts = <<>>

\* bkt = only_bucket or default_bucket
JobBucket == IF f_job.only_bucket # "" THEN f_job.only_bucket ELSE f_job.default_bucket

JobThreshold == Threshold(f_job.today, f_job.months)

\* lambda_handler, lines 148-154: the next record of the event; a record of
\* another source is passed over, for an S3 record run_job is entered with
\* its bucket and its decoded key (totals at 0, lines 125-126)
LambdaHandlerRecord ==
    /\ f_pc \in {"entry", "done"}
    /\ f_event # <<>>
    /\ f_i <= Len(f_event)
    /\ f_i' = f_i + 1
    /\ IF f_event[f_i].eventSource = "aws:s3"
       THEN /\ f_job' = [f_job EXCEPT !.only_bucket = f_event[f_i].bucket,
                                      !.only_key = UnquotePlus(f_event[f_i].key)]
            /\ f_pc' = "start"
            /\ f_listed' = {}
            /\ f_todo' = {}
            /\ f_files' = 0
            /\ f_written' = 0
       ELSE UNCHANGED <<f_job, f_pc, f_listed, f_todo, f_files, f_written>>
    /\ UNCHANGED <<f_store, f_event, f_last, f_puts>>
    /\ UNCHANGED <<dvars, evars, qvars>>

\* lambda_handler, lines 155-156: no Records, run_job for the whole prefix
LambdaHandlerBulk ==
    /\ f_pc = "entry"
    /\ f_event = <<>>
    /\ f_pc' = "start"
    /\ UNCHANGED <<f_store, f_event, f_i, f_job, f_listed, f_todo, f_files, f_written,
                   f_last, f_puts>>
    /\ UNCHANGED <<dvars, evars, qvars>>

\* lambda_handler, line 157: the records are exhausted, or the bulk run has
\* returned (what run_job raises is raised again, lines 158-160: f_pc stays
\* "raised")
LambdaHandlerReturn ==
    /\ \/ f_pc = "done" /\ f_event = <<>>
       \/ f_pc \in {"entry", "done"} /\ f_event # <<>> /\ f_i > Len(f_event)
    /\ f_pc' = "returned"
    /\ UNCHANGED <<f_store, f_event, f_i, f_job, f_listed, f_todo, f_files, f_written,
                   f_last, f_puts>>
    /\ UNCHANGED <<dvars, evars, qvars>>

\* run_job, the branch for one object (lines 128-130), to its return or raise
RunJobSingle ==
    /\ f_pc = "start"
    /\ f_job.only_key # <<>>
    /\ \E readOk \in BOOLEAN : \E writeOk \in {w \in BOOLEAN : readOk \/ w} :
         \E r \in {ProcessObject(f_store, JobBucket, f_job.only_key, f_job.output_prefix,
                                  JobThreshold, f_job.today, readOk, writeOk)} :
            /\ f_files' = 1
            /\ f_last' = CallRecord(r, JobBucket, f_job.only_key, readOk, writeOk)
            /\ f_store' = ApplyPuts(f_store, r.puts)
            /\ f_puts' = f_puts \o r.puts
            /\ f_written' = IF r.st = "raised" THEN f_written ELSE f_written + r.ret
            /\ f_pc' = IF r.st = "raised" THEN "raised" ELSE "done"
    /\ UNCHANGED <<f_event, f_i, f_job, f_listed, f_todo>>
    /\ UNCHANGED <<dvars, evars, qvars>>

\* run_job, bulk branch: list_keys over the input prefix of the default bucket
RunJobList ==
    /\ f_pc = "start"
    /\ f_job.only_key = <<>>
    /\ \E listOk \in BOOLEAN :
         /\ f_listed' = ListKeys(f_store, f_job.default_bucket, f_job.input_prefix, listOk)
         /\ f_todo' = f_listed'
    /\ f_pc' = "bulk"
    /\ UNCHANGED <<f_store, f_event, f_i, f_job, f_files, f_written, f_last, f_puts>>
    /\ UNCHANGED <<dvars, evars, qvars>>

\* run_job, one iteration of the loop of lines 132-134 (the store's listing
\* order is not fixed: any key not yet yielded may be the next)
RunJobNext ==
    /\ f_pc = "bulk"
    /\ \E key \in f_todo, readOk \in BOOLEAN : \E writeOk \in {w \in BOOLEAN : readOk \/ w} :
         \E r \in {ProcessObject(f_store, f_job.default_bucket, key, f_job.output_prefix,
                                  JobThreshold, f_job.today, readOk, writeOk)} :
            /\ f_files' = f_files + 1
            /\ f_todo' = f_todo \ {key}
            /\ f_last' = CallRecord(r, f_job.default_bucket, key, readOk, writeOk)
            /\ f_store' = ApplyPuts(f_store, r.puts)
            /\ f_puts' = f_puts \o r.puts
            /\ f_written' = IF r.st = "raised" THEN f_written ELSE f_written + r.ret
            /\ f_pc' = IF r.st = "raised" THEN "raised" ELSE "bulk"
    /\ UNCHANGED <<f_event, f_i, f_job, f_listed>>
    /\ UNCHANGED <<dvars, evars, qvars>>

\* run_job, bulk branch: the listing is exhausted, the counts are returned
RunJobReturn ==
    /\ f_pc = "bulk"
    /\ f_todo = {}
    /\ f_pc' = "done"
    /\ UNCHANGED <<f_store, f_event, f_i, f_job, f_listed, f_todo, f_files, f_written,
                   f_last, f_puts>>
    /\ UNCHANGED <<dvars, evars, qvars>>

FilterNext ==
    \/ LambdaHandlerRecord
    \/ LambdaHandlerBulk
    \/ LambdaHandlerReturn
    \/ RunJobSingle
    \/ RunJobList
    \/ RunJobNext
    \/ RunJobReturn

-----------------------------------------------------------------------------
(* Claims about process_object and run_job (checked under SpecFilter)        *)

\* C1: whatever an object holds, a failure on it is recovered locally:
\* process_object returns (0 for the object that failed), run_job does not
\* raise, and a bulk run that ends has processed and counted every object
\* that was enumerated.
C1_FailuresRecoveredLocally ==
    /\ f_last.st \in {"idle", "returned"}
    /\ f_pc # "raised"
    /\ (f_pc = "done" /\ f_job.only_key = <<>>) => f_files = Cardinality(f_listed)

\* C8: in a bulk run two distinct source objects that both have survivors
\* never write to the same output key.
C8_DistinctSourcesDistinctOutputs ==
    f_job.only_key = <<>> =>
        \A i, j \in 1..Len(f_puts) :
            f_puts[i].src # f_puts[j].src => f_puts[i].key # f_puts[j].key

\* the records of the object of the last call that pass the expiry filter,
\* in their order (none when the object cannot be read, decoded or parsed)
C9_Parsed ==
    IF f_last.readOk /\ <<f_last.bucket, f_last.key>> \in DOMAIN f_store
       /\ f_store[<<f_last.bucket, f_last.key>>].utf8
    THEN DetectAndExtractRecords(f_store[<<f_last.bucket, f_last.key>>].text).recs
    ELSE <<>>

C9_Survivors ==
    SelectSeq(C9_Parsed,
              LAMBDA r : /\ AccreditationExpiresWithin(r, JobThreshold, f_job.today).st = "returned"
                         /\ AccreditationExpiresWithin(r, JobThreshold, f_job.today).val)

\* {out_prefix}/{basename without directory and last extension}_filtered.ndjson
C9_OutKey ==
    RStripChar(f_job.output_prefix, "/") \o <<"/">>
        \o BeforeLast(AfterLast(f_last.key, "/"), ".") \o FilteredSuffix

\* C9: a call of process_object tries at most one write and never writes the
\* source key; with no survivor it writes nothing and returns 0; otherwise it
\* writes the survivors, in their order, to the one key derived from the
\* source's base name and returns their count, or 0 when the write fails.
C9_OneWriteOfTheSurvivors ==
    f_last.st # "idle" =>
        /\ f_last.st = "returned"
        /\ f_last.tried <= 1
        /\ \A i \in 1..Len(f_last.puts) :
              <<f_last.puts[i].bucket, f_last.puts[i].key>> # <<f_last.bucket, f_last.key>>
        /\ IF C9_Survivors = <<>>
           THEN f_last.tried = 0 /\ f_last.puts = <<>> /\ f_last.ret = 0
           ELSE /\ f_last.tried = 1
                /\ IF f_last.writeOk
                   THEN /\ f_last.ret = Len(C9_Survivors)
                        /\ Len(f_last.puts) = 1
                        /\ f_last.puts[1].bucket = f_last.bucket
                        /\ f_last.puts[1].key = C9_OutKey
                        /\ f_last.puts[1].text = NdjsonPayload(C9_Survivors)
                   ELSE f_last.ret = 0 /\ f_last.puts = <<>>

-----------------------------------------------------------------------------
(* src/lambdas3.py, the Query-Trigger unit: its pure functions.             *)
(* Times are counted in ticks of a tenth of a millisecond, so that the      *)
(* waits 1.0, 1.7, 2.89, 4.913, 8.3521, 10.0 seconds are whole numbers.     *)

Ms(n) == n * 10

\* n in decimal, zero-padded to w characters
Pad(n, w) == [i \in 1..(w - Len(DumpsNat(n))) |-> "0"] \o DumpsNat(n)

\* date.isoformat()
IsoFormat(d) == Pad(d[1], 4) \o <<"-">> \o Pad(d[2], 2) \o <<"-">> \o Pad(d[3], 2)

\* the query text in pieces: what precedes the date, the date, what follows
\* it up to the placeholder, the placeholder, the rest
SqlSelect == "UNLOAD ( SELECT ... WHERE CAST(a.valid_until AS DATE) >= DATE '"
SqlOrder == "' GROUP BY r.location.state ) s ) out ORDER BY _order, state ) TO '"
Placeholder == "{OUTPUT}"
SqlWith == "' WITH (format='TEXTFILE', field_delimiter=',', compression='NONE')"

BuildSql(today_str) == <<SqlSelect>> \o today_str \o <<SqlOrder, Placeholder, SqlWith>>

\* RESULTS_S3_PREFIX of the environment
ResultsS3Prefix == <<"s", "3", ":", "/", "/", "r", "/", "x", "/">>

\* results_prefix_for_object, with the date its own date.today() returns
ResultsPrefixForObject(src_bucket, src_key, today) ==
    RStripChar(ResultsS3Prefix, "/") \o <<"/">> \o src_bucket \o <<"/">> \o Quote(src_key)
        \o <<"/">> \o IsoFormat(today) \o <<"/">>

\* a variant that digests the bucket and the query only (C4 must tell it apart)
TokenMutant(src_bucket, src_key, sql) == <<"sha256:">> \o src_bucket \o <<"|">> \o sql

\* the idempotency token: the SHA-256 digest, taken as free of collisions,
\* is represented by the text it digests
Token(src_bucket, src_key, sql) == <<"sha256:">> \o src_bucket \o <<"|">> \o src_key \o <<"|">> \o sql

\* query.replace("{OUTPUT}", output_location.rstrip("/") + "/")
QueryString(query, output_location) ==
    Flatten([i \in 1..Len(query) |->
                IF query[i] = Placeholder THEN RStripChar(output_location, "/") \o <<"/">>
                ELSE <<query[i]>>])

\* s.split("/", 3): the three parts before the first three "/" and the rest
SplitThree(s) ==
    <<SubSeq(s, 1, FindChars(s, 1, {"/"}) - 1),
      SubSeq(s, FindChars(s, 1, {"/"}) + 1, FindChars(s, FindChars(s, 1, {"/"}) + 1, {"/"}) - 1),
      SubSeq(s, FindChars(s, FindChars(s, 1, {"/"}) + 1, {"/"}) + 1,
             FindChars(s, FindChars(s, FindChars(s, 1, {"/"}) + 1, {"/"}) + 1, {"/"}) - 1),
      SubSeq(s, FindChars(s, FindChars(s, FindChars(s, 1, {"/"}) + 1, {"/"}) + 1, {"/"}) + 1, Len(s))>>

MarkerName == <<"m", "a", "r", "k", "e", "r", ".", "j", "s", "o", "n">>

\* the identifier the engine gives its n-th execution
ExecutionId(n) == <<"q">> \o DumpsNat(n)

\* the marker of lines 126-135: where it goes and what it holds
Marker(src_bucket, src_key, today_str, qid, output_prefix) ==
    [bucket |-> SplitThree(output_prefix)[3],
     key |-> SplitThree(output_prefix)[4] \o MarkerName,
     body |-> Dumps(Obj(<<Pair(<<"source_bucket">>, Str(src_bucket)),
                          Pair(<<"source_key">>, Str(src_key)),
                          Pair(<<"date">>, Str(today_str)),
                          Pair(<<"query_execution_id">>, Str(ExecutionId(qid))),
                          Pair(<<"output_prefix">>, Str(output_prefix)),
                          Pair(<<"status">>, Str(<<"SUCCEEDED">>))>>))]

TerminalStates == {"SUCCEEDED", "FAILED", "CANCELLED"}
EngineStates == {"QUEUED", "RUNNING"} \cup TerminalStates

\* a variant for which only FAILED is fatal (C2 must tell it apart)
NotSucceededMutant(state) == state = "FAILED"

\* line 122: any state but SUCCEEDED is fatal
NotSucceeded(state) == state # "SUCCEEDED"

\* line 80: what the context says remains, 30000 ms when it has no clock
RemainingMs(ctx) == IF ctx.clock THEN ctx.remaining ELSE Ms(30000)

\* a variant with half the margin (C3 must tell it apart)
BudgetExhaustedMutant(remaining) == remaining < Ms(5000)

\* line 81: less than 10000 ms remain
BudgetExhausted(remaining) == remaining < Ms(10000)

\* line 86: delay = min(delay * 1.7, 10.0)
NextDelay(delay) == IF (delay * 17) \div 10 < Ms(10000) THEN (delay * 17) \div 10 ELSE Ms(10000)

\* the engine's start_query_execution: a token it has seen names the execution
\* it already has, a new token starts one; gives <<executions, id>>
StartQueryExecution(execs, query, output, token, src, today_str) ==
    IF \E n \in 1..Len(execs) : execs[n].token = token
    THEN <<execs, CHOOSE n \in 1..Len(execs) : execs[n].token = token>>
    ELSE <<Append(execs, [token |-> token, query |-> query, output |-> output,
                          state |-> "QUEUED", src |-> src, date |-> today_str]),
           Len(execs) + 1>>

-----------------------------------------------------------------------------
(* The Query-Trigger unit as a state machine: invocations of lambda_handler, *)
(* the query engine and the calendar                                         *)

MaxInvocations == 2
MaxBudget == 2

S3Record(key) == [eventSource |-> "aws:s3", bucket |-> <<"b">>, key |-> key]
OtherRecord == [eventSource |-> "aws:sns", bucket |-> <<>>, key |-> <<>>]

\* two spellings of the key "a b", and the key "k"
RawKeyPlus == <<"a", "+", "b">>
RawKeyHex == <<"a", "%", "2", "0", "b">>
RawKeyK == <<"k">>

\* event.get("Records", []) of the events delivered: none, a record of
\* another source before one object, two objects
Events ==
    { <<>>, <<OtherRecord, S3Record(RawKeyHex)>>, <<S3Record(RawKeyPlus), S3Record(RawKeyK)>> }

\* contexts: one without get_remaining_time_in_millis, and clocks that start
\* at 8855.1 ms plus a whole number of 10 s
Budgets == {Ms(10000) * k + 88551 : k \in 0..MaxBudget}
Contexts == {[clock |-> FALSE, remaining |-> 0]} \cup {[clock |-> TRUE, remaining |-> b] : b \in Budgets}

\* the calendar runs from the last day of a year into the next
FirstDay == <<2024, 12, 31>>
LastDay == <<2025, 1, 1>>

NoContext == [clock |-> FALSE, remaining |-> 0]

NoStore == [a \in {} |-> <<>>]

QueryInit ==
    /\ q_day = FirstDay
    /\ q_execs = <<>>
    /\ q_markers = NoStore
    /\ q_inv = 0
    /\ q_event = <<>>
    /\ q_ctx = NoContext
    /\ q_pc = "idle"
    /\ q_i = 0
    /\ q_src = <<>>
    /\ q_today = <<>>
    /\ q_prefix = <<>>
    /\ q_qid = 0
    /\ q_delay = 0
    /\ q_state = ""
    /\ q_exc = ""
    /\ q_timedout = {}

\* lambda_handler is left: its local variables are gone
Leave ==
    /\ q_ctx' = NoContext
    /\ q_i' = 0
    /\ q_src' = <<>>
    /\ q_today' = <<>>
    /\ q_prefix' = <<>>
    /\ q_qid' = 0
    /\ q_delay' = 0
    /\ q_state' = ""

\* an exception leaves lambda_handler (lines 137-145 re-raise every one)
Raise(exc) ==
    /\ q_pc' = "raised"
    /\ q_exc' = exc
    /\ q_timedout' = IF exc = "TimeoutError" THEN q_timedout \cup {q_src} ELSE q_timedout
    /\ Leave

\* return {"ok": True}
Return ==
    /\ q_pc' = "returned"
    /\ UNCHANGED <<q_exc, q_timedout>>
    /\ Leave

\* lambda_handler is entered with an event and a context: lines 96-99
Enter(event, ctx) ==
    /\ q_inv' = q_inv + 1
    /\ q_event' = event
    /\ q_exc' = ""
    /\ IF event = <<>>
       THEN q_pc' = "returned" /\ Leave
       ELSE /\ q_pc' = "records"
            /\ q_ctx' = ctx
            /\ q_i' = 1
            /\ UNCHANGED <<q_src, q_today, q_prefix, q_qid, q_delay, q_state>>
    /\ UNCHANGED <<q_day, q_execs, q_markers, q_timedout>>
    /\ UNCHANGED <<dvars, evars, fvars>>

\* the trigger delivers an event
Invoke ==
    /\ q_pc = "idle"
    /\ \E event \in Events, ctx \in Contexts : Enter(event, ctx)

\* the trigger's retry after a raise: the same event, a new context
Retry ==
    /\ q_pc = "raised"
    /\ q_inv < MaxInvocations
    /\ \E ctx \in Contexts : Enter(q_event, ctx)

\* the head of the for loop and lines 102-109: the next record of S3 gives
\* the source object and today_str; after the last the handler returns
HandlerRecord ==
    /\ q_pc = "records"
    /\ IF q_i > Len(q_event)
       THEN Return
       ELSE IF q_event[q_i].eventSource # "aws:s3"
       THEN /\ q_i' = q_i + 1
            /\ UNCHANGED <<q_pc, q_src, q_today, q_ctx, q_prefix, q_qid, q_delay, q_state,
                           q_exc, q_timedout>>
       ELSE /\ q_src' = <<q_event[q_i].bucket, UnquotePlus(q_event[q_i].key)>>
            /\ q_today' = IsoFormat(q_day)
            /\ q_pc' = "prefix"
            /\ UNCHANGED <<q_i, q_ctx, q_prefix, q_qid, q_delay, q_state, q_exc, q_timedout>>
    /\ UNCHANGED <<q_day, q_execs, q_markers, q_inv, q_event>>
    /\ UNCHANGED <<dvars, evars, fvars>>

\* line 110: results_prefix_for_object reads the date again
HandlerPrefix ==
    /\ q_pc = "prefix"
    /\ q_prefix' = ResultsPrefixForObject(q_src[1], q_src[2], q_day)
    /\ q_pc' = "submit"
    /\ UNCHANGED <<q_day, q_execs, q_markers, q_inv, q_event, q_ctx, q_i, q_src,
                   q_today, q_qid, q_delay, q_state, q_exc, q_timedout>>
    /\ UNCHANGED <<dvars, evars, fvars>>

\* lines 113 and 118, start_unload, and line 73: the engine answers with an
\* execution, or the client call fails
HandlerSubmit ==
    /\ q_pc = "submit"
    /\ \E ok \in BOOLEAN :
         IF ok
         THEN \E r \in {StartQueryExecution(q_execs,
                                            QueryString(BuildSql(q_today), q_prefix), q_prefix,
                                            Token(q_src[1], q_src[2], BuildSql(q_today)),
                                            q_src, q_today)} :
                 /\ q_execs' = r[1]
                 /\ q_qid' = r[2]
                 /\ q_delay' = Ms(1000)
                 /\ q_pc' = "poll"
                 /\ UNCHANGED <<q_ctx, q_i, q_src, q_today, q_prefix, q_state, q_exc, q_timedout>>
         ELSE Raise("ClientError") /\ UNCHANGED q_execs
    /\ UNCHANGED <<q_day, q_markers, q_inv, q_event>>
    /\ UNCHANGED <<dvars, evars, fvars>>

\* wait_for_query, lines 75-78: the state is read; a terminal one is returned
WaitPoll ==
    /\ q_pc = "poll"
    /\ \E ok \in BOOLEAN :
         IF ok
         THEN /\ q_state' = q_execs[q_qid].state
              /\ q_pc' = IF q_execs[q_qid].state \in TerminalStates THEN "finished" ELSE "budget"
              /\ UNCHANGED <<q_ctx, q_i, q_src, q_today, q_prefix, q_qid, q_delay, q_exc, q_timedout>>
         ELSE Raise("ClientError")
    /\ UNCHANGED <<q_day, q_execs, q_markers, q_inv, q_event>>
    /\ UNCHANGED <<dvars, evars, fvars>>

\* wait_for_query, lines 80-84: the budget is read, TimeoutError when short
WaitBudget ==
    /\ q_pc = "budget"
    /\ IF BudgetExhausted(RemainingMs(q_ctx))
       THEN Raise("TimeoutError")
       ELSE /\ q_pc' = "sleep"
            /\ UNCHANGED <<q_ctx, q_i, q_src, q_today, q_prefix, q_qid, q_delay, q_state, q_exc,
                           q_timedout>>
    /\ UNCHANGED <<q_day, q_execs, q_markers, q_inv, q_event>>
    /\ UNCHANGED <<dvars, evars, fvars>>

\* wait_for_query, lines 85-86: the wait takes its time from the budget
WaitSleep ==
    /\ q_pc = "sleep"
    /\ q_ctx' = IF q_ctx.clock THEN [q_ctx EXCEPT !.remaining = @ - q_delay] ELSE q_ctx
    /\ q_delay' = NextDelay(q_delay)
    /\ q_pc' = "poll"
    /\ UNCHANGED <<q_day, q_execs, q_markers, q_inv, q_event, q_i, q_src,
                   q_today, q_prefix, q_qid, q_state, q_exc, q_timedout>>
    /\ UNCHANGED <<dvars, evars, fvars>>

\* lines 120-135: RuntimeError unless the state is SUCCEEDED; then the marker
\* is put, or the client call fails; after the put the loop goes on
HandlerFinish ==
    /\ q_pc = "finished"
    /\ IF NotSucceeded(q_state)
       THEN Raise("RuntimeError") /\ UNCHANGED q_markers
       ELSE \E ok \in BOOLEAN :
              IF ok
              THEN \E m \in {Marker(q_src[1], q_src[2], q_today, q_qid, q_prefix)} :
                      /\ q_markers' = [a \in DOMAIN q_markers \cup {<<m.bucket, m.key>>} |->
                                          IF a = <<m.bucket, m.key>> THEN m.body ELSE q_markers[a]]
                      /\ q_i' = q_i + 1
                      /\ q_pc' = "records"
                      /\ UNCHANGED <<q_ctx, q_src, q_today, q_prefix, q_qid, q_delay, q_state,
                                     q_exc, q_timedout>>
              ELSE Raise("ClientError") /\ UNCHANGED q_markers
    /\ UNCHANGED <<q_day, q_execs, q_inv, q_event>>
    /\ UNCHANGED <<dvars, evars, fvars>>

\* the engine moves an execution on: queued to running, either to an end
\* (the handler sees the engine's progress only in get_query_execution, line
\* 75, so the steps of an execution are taken when it is about to be read)
EngineAdvance ==
    /\ q_pc = "poll"
    /\ \E n \in {q_qid} :
         \E state \in (IF q_execs[n].state = "QUEUED" THEN {"RUNNING"} ELSE {}) \cup TerminalStates :
            /\ q_execs[n].state \notin TerminalStates
            /\ q_execs' = [q_execs EXCEPT ![n].state = state]
    /\ UNCHANGED <<q_day, q_markers, q_inv, q_event, q_ctx, q_pc, q_i, q_src,
                   q_today, q_prefix, q_qid, q_delay, q_state, q_exc, q_timedout>>
    /\ UNCHANGED <<dvars, evars, fvars>>

\* the date changes (the handler sees the date only in date.today(), lines
\* 108 and 54, so the step is taken when one of these calls is next)
Midnight ==
    /\ q_pc \in {"records", "prefix"}
    /\ q_day # LastDay
    /\ q_day' = AddDays(q_day, 1)
    /\ UNCHANGED <<q_execs, q_markers, q_inv, q_event, q_ctx, q_pc, q_i, q_src,
                   q_today, q_prefix, q_qid, q_delay, q_state, q_exc, q_timedout>>
    /\ UNCHANGED <<dvars, evars, fvars>>

QueryNext ==
    \/ Invoke
    \/ Retry
    \/ HandlerRecord
    \/ HandlerPrefix
    \/ HandlerSubmit
    \/ WaitPoll
    \/ WaitBudget
    \/ WaitSleep
    \/ HandlerFinish
    \/ EngineAdvance
    \/ Midnight

-----------------------------------------------------------------------------
(* Claims about the Query-Trigger unit (checked under SpecQuery)             *)

\* a step that writes a marker
C2_MarkerWritten == q_markers' # q_markers

\* C2: a marker is written for a source object only after the poll for that
\* object's execution returned SUCCEEDED (and it is that object's marker, the
\* only one the step changes); when the poll ends in FAILED or CANCELLED, or
\* in a local timeout, the handler raises and writes no marker.
C2_MarkerOnlyAfterSucceeded ==
    [][ /\ C2_MarkerWritten =>
              /\ q_pc = "finished"
              /\ q_state = "SUCCEEDED"
              /\ q_execs[q_qid].src = q_src
              /\ \E a \in DOMAIN q_markers' :
                    /\ \A b \in DOMAIN q_markers : b # a => q_markers'[b] = q_markers[b]
                    /\ DOMAIN q_markers' = DOMAIN q_markers \cup {a}
                    /\ q_markers'[a] = Marker(q_src[1], q_src[2], q_today, q_qid, q_prefix).body
        /\ (q_pc = "finished" /\ q_state \in {"FAILED", "CANCELLED"} /\ q_pc' # q_pc) =>
              /\ q_pc' = "raised"
              /\ q_exc' = "RuntimeError"
              /\ ~C2_MarkerWritten
        /\ (q_pc # "raised" /\ q_pc' = "raised" /\ q_exc' = "TimeoutError") => ~C2_MarkerWritten
      ]_vars

\* a marker stands for one object, and the handler has raised on an
\* execution that did not succeed
C2_Witness ==
    /\ DOMAIN q_markers # {}
    /\ q_pc = "raised"
    /\ q_exc = "RuntimeError"

\* what remains of the invocation's budget, in ticks
C3_Remaining == IF q_ctx.clock THEN q_ctx.remaining ELSE 300000

\* C3: wait_for_query returns only SUCCEEDED, FAILED or CANCELLED; each time
\* it reads another state it checks the remaining budget before it waits; a
\* wait begins only from that check and with at least 10000 ms left; with
\* less, the call does not wait and ends in TimeoutError, which is no state
\* of the engine.
C3_BudgetCheckedBeforeWaiting ==
    [][ /\ (q_pc = "poll" /\ q_pc' = "finished") => q_state' \in {"SUCCEEDED", "FAILED", "CANCELLED"}
        /\ (q_pc = "poll" /\ q_pc' \notin {"poll", "finished", "raised"}) =>
              /\ q_pc' = "budget"
              /\ q_state' \notin {"SUCCEEDED", "FAILED", "CANCELLED"}
              /\ q_ctx' = q_ctx /\ q_delay' = q_delay
        /\ (q_pc' = "sleep" /\ q_pc # "sleep") => (q_pc = "budget" /\ C3_Remaining >= 100000)
        /\ (q_pc \in {"poll", "budget", "sleep"} /\ (q_ctx' # q_ctx \/ q_delay' # q_delay)
            /\ q_pc' # "raised") => q_pc = "sleep"
        /\ (q_pc = "budget" /\ C3_Remaining < 100000 /\ q_pc' # q_pc) =>
              /\ q_pc' = "raised"
              /\ q_exc' = "TimeoutError"
              /\ q_exc' \notin EngineStates
      ]_vars

\* an invocation has ended in the local timeout
C3_Witness ==
    /\ q_pc = "raised"
    /\ q_exc = "TimeoutError"
    /\ q_timedout # {}

\* the executions the engine holds for a source object
C4_ExecutionsOf(src) == {n \in 1..Len(q_execs) : q_execs[n].src = src}

\* C4 as stated: once an invocation for an object has ended in a local
\* timeout, no second execution is ever created for that object.
C4_OneExecutionPerObject ==
    \A src \in q_timedout : Cardinality(C4_ExecutionsOf(src)) <= 1

\* C4 for retries on the same calendar date: a local timeout leaves the
\* engine's executions as they are; a submission gets an execution of its own
\* object and date, and when the engine already holds one for that object and
\* date it hands that one back and creates none; so there is never a second
\* execution for an object and a date.
C4_OneExecutionPerObjectAndDate ==
    [][ /\ (q_pc # "raised" /\ q_pc' = "raised" /\ q_exc' = "TimeoutError") => q_execs' = q_execs
        /\ (q_pc = "submit" /\ q_pc' = "poll") =>
              /\ q_execs'[q_qid'].src = q_src
              /\ q_execs'[q_qid'].date = q_today
              /\ (\E n \in 1..Len(q_execs) : q_execs[n].src = q_src /\ q_execs[n].date = q_today)
                    => (q_execs' = q_execs /\ q_execs[q_qid'].src = q_src /\ q_execs[q_qid'].date = q_today)
        /\ \A n, m \in 1..Len(q_execs') :
              (q_execs'[n].src = q_execs'[m].src /\ q_execs'[n].date = q_execs'[m].date) => n = m
      ]_vars

\* a retry on the date of the invocation that timed out polls the one
\* execution there is for the object
C4_Witness ==
    /\ q_inv = 2
    /\ q_pc = "poll"
    /\ q_src \in q_timedout
    /\ q_day = FirstDay
    /\ C4_ExecutionsOf(q_src) = {q_qid}

\* C10: with a budget that shrinks by the time waited, every run of
\* wait_for_query ends strictly before the deadline: no wait reaches the
\* point where nothing remains of the budget.
C10_EndsBeforeDeadline == q_ctx.clock => q_ctx.remaining > 0

-----------------------------------------------------------------------------
(* The specifications: one unit runs, the others stay as constructed        *)

DetectIdle == d_text = <<>> /\ d_out = NotCalled

ExpiryIdle == e_rec = Null /\ e_window = <<>> /\ e_out = ExpNotCalled

FilterIdle ==
    /\ f_store = <<>>
    /\ f_event = <<>>
    /\ f_i = 1
    /\ f_job = <<>>
    /\ f_pc = "entry"
    /\ f_listed = {}
    /\ f_todo = {}
    /\ f_files = 0
    /\ f_written = 0
    /\ f_last = PoNotCalled
    /\ f_puts = <<>>

InitDetect == DetectInit /\ ExpiryIdle /\ FilterIdle /\ QueryInit
SpecDetect == InitDetect /\ [][DetectNext]_vars

InitExpiry == DetectIdle /\ ExpiryInit /\ FilterIdle /\ QueryInit
SpecExpiry == InitExpiry /\ [][ExpiryNext]_vars

InitFilter == DetectIdle /\ ExpiryIdle /\ FilterInit /\ QueryInit
SpecFilter == InitFilter /\ [][FilterNext]_vars

InitQuery == DetectIdle /\ ExpiryIdle /\ FilterIdle /\ QueryInit
SpecQuery == InitQuery /\ [][QueryNext]_vars


====
